---- MODULE Spec2Model ----
(***************************************************************************)
(* Playback controller (PlayerQueue, src/src/player/queue.ts, the variant  *)
(* with intra-chunk offsets) driving the speech engine adapter             *)
(* (src/src/tts/engine.js).  Chunks are sequences of characters, indices   *)
(* are 0-based as in the source.  Every handler is one action; the         *)
(* handlers are operators from a controller record to a controller record. *)
(***************************************************************************)
EXTENDS Integers, Sequences, FiniteSets, TLC

\* ---------------------------------------------------------------- bounds
\* utterances the engine may hold at once: the queued ones plus the cancelled
\* ones whose final event has not been delivered yet
MaxUtterances == 2

\* ---------------------------------------------------------------- inputs
Undefined == 0 - 1     \* an absent field of a settings patch / start index null
Null == 0              \* voice: null
Rates == {1, 2}        \* abstract rate values (1 is the default rate)
Volumes == {1, 2}      \* abstract volume values (1 is the default volume)
Voices == {1}          \* voice identities

ab == <<"a", "b">>
cc == <<"c">>
ba == <<"b", "a">>
empty == <<>>

\* chunk sequences handed to the constructor, setChunks and refreshChunks
ChunkLists == { <<>>, <<ab, cc>>, <<ba, empty, cc>> }

\* the longest chunk of ChunkLists
MaxChunkLen == Len(ab)

Indices == (0 - 1) .. Len(<<ba, empty, cc>>)   \* caller-supplied chunk indices, also out of range
Offsets == 0 .. (MaxChunkLen + 1)          \* caller-supplied intra-chunk offsets

\* settings patches: every field may be absent; a voice may be given as null
Patches == [rate : Rates \cup {Undefined},
            volume : Volumes \cup {Undefined},
            voice : Voices \cup {Null, Undefined}]

\* the patches that leave volume and voice at their initial values
RatePatches == [rate : Rates \cup {Undefined},
                volume : {Undefined},
                voice : {Null, Undefined}]

\* the patches that leave the volume alone
VoicePatches == {p \in Patches : p.volume = Undefined}

\* the patches of the volume alone
VolumePatches == {p \in Patches : p.rate = Undefined /\ p.voice = Undefined}

\* chunks .. lastKnownCharOffset are the fields of PlayerQueue (utterance is
\* TRUE when the field holds an utterance).
\* engine: the utterances speechSynthesis holds, the one being spoken first;
\*   each with its text and volume, the intra-chunk offset at which its
\*   text starts (base), whether its callbacks are still attached and
\*   whether it is the one this.utterance refers to.
\* stale: the cancelled utterances with callbacks attached whose last event
\*   the engine has not delivered yet.
\* calls, notes: the adapter calls and the listener notifications made by the
\*   last method or callback, in order; op: its name.
\* attempts: the speak calls made for the current chunk since a caller
\*   command, an advance or a restart last made it the chunk to speak.
\* rawInput: the text the App holds, from which it segments the chunks.
\* onIndex, onState: the index and the state the listener was last notified
\*   of (Undefined, "none": not notified yet).
VARIABLES chunks, settings, index, state, utterance, retries,
          resumeFromOffset, spokenOffsetBase, currentChunkLength,
          boundarySupported, lastKnownCharOffset,
          engine, stale, calls, notes, attempts, op, rawInput,
          onIndex, onState

vars == <<chunks, settings, index, state, utterance, retries,
          resumeFromOffset, spokenOffsetBase, currentChunkLength,
          boundarySupported, lastKnownCharOffset,
          engine, stale, calls, notes, attempts, op, rawInput,
          onIndex, onState>>

\* ---------------------------------------------------------------- helpers
Min(a, b) == IF a < b THEN a ELSE b
Max(a, b) == IF a > b THEN a ELSE b

\* a ?? b
Coalesce(a, b) == IF a = Undefined \/ a = Null THEN b ELSE a

\* chunk.slice(offset)
Slice(chunk, offset) == SubSeq(chunk, offset + 1, Len(chunk))

\* this.chunks[this.index] ?? ""
ChunkAt(q) == IF q.index + 1 \in DOMAIN q.chunks THEN q.chunks[q.index + 1] ELSE <<>>

\* the controller and the engine as one record; calls and notes start empty
\* for every handler and collect the adapter calls and the notifications the
\* handler makes
Cur == [chunks |-> chunks, settings |-> settings, index |-> index, state |-> state,
        utterance |-> utterance, retries |-> retries,
        resumeFromOffset |-> resumeFromOffset, spokenOffsetBase |-> spokenOffsetBase,
        currentChunkLength |-> currentChunkLength,
        boundarySupported |-> boundarySupported,
        lastKnownCharOffset |-> lastKnownCharOffset,
        engine |-> engine, stale |-> stale,
        calls |-> <<>>, notes |-> <<>>, attempts |-> attempts]

\* ---------------------------------------------------------------- adapter
\* engine.js cancel(): speechSynthesis.cancel() empties the engine's queue.
\* A cancelled utterance whose callbacks are still attached may yet deliver
\* its last events (stale counts those); one without callbacks reaches nobody.
ttsCancel(q) ==
  [q EXCEPT !.calls = Append(@, [op |-> "cancel"]),
            !.stale = @ + Len(SelectSeq(q.engine, LAMBDA u : u.attached)),
            !.engine = <<>>]

\* engine.js pause() / resume(): passed on to speechSynthesis
ttsPause(q) == [q EXCEPT !.calls = Append(@, [op |-> "pause"])]

ttsResume(q) == [q EXCEPT !.calls = Append(@, [op |-> "resume"])]

\* engine.js speak(): builds the utterance from text and settings, attaches
\* the callbacks, queues it; the controller stores the returned handle.
\* The rate and voice an utterance was built with are in the speak call.
speak(q, text) ==
  LET u == [text |-> text, volume |-> q.settings.volume,
            base |-> q.spokenOffsetBase,
            attached |-> TRUE, handle |-> TRUE]
  IN [q EXCEPT !.calls = Append(@, [op |-> "speak", text |-> text,
                                     rate |-> q.settings.rate,
                                     volume |-> q.settings.volume,
                                     voice |-> q.settings.voice]),
               !.engine = Append([i \in DOMAIN q.engine |->
                                    [q.engine[i] EXCEPT !.handle = FALSE]], u),
               !.utterance = TRUE,
               !.attempts = @ + 1]

\* this.utterance = null
dropHandle(q) ==
  [q EXCEPT !.utterance = FALSE,
            !.engine = [i \in DOMAIN q.engine |-> [q.engine[i] EXCEPT !.handle = FALSE]]]

\* this.utterance.onend = onerror = onboundary = null
detach(q) ==
  IF q.utterance
  THEN [q EXCEPT !.engine = [i \in DOMAIN q.engine |->
                               IF q.engine[i].handle
                               THEN [q.engine[i] EXCEPT !.attached = FALSE]
                               ELSE q.engine[i]]]
  ELSE q

\* ---------------------------------------------------------------- notifications
emitProgress(q) ==
  [q EXCEPT !.notes = Append(@, [n |-> "progress", index |-> q.index,
                                 total |-> Len(q.chunks),
                                 chunkLength |-> q.currentChunkLength,
                                 charOffset |-> q.lastKnownCharOffset,
                                 boundarySupported |-> q.boundarySupported])]

emitIndex(q) ==
  emitProgress([q EXCEPT !.notes = Append(@, [n |-> "index", index |-> q.index,
                                              total |-> Len(q.chunks)])])

emitState(q) == [q EXCEPT !.notes = Append(@, [n |-> "state", state |-> q.state])]

emitError(q) == [q EXCEPT !.notes = Append(@, [n |-> "error"])]

\* ---------------------------------------------------------------- controller
resetOffsets(q) ==
  [q EXCEPT !.resumeFromOffset = 0, !.spokenOffsetBase = 0,
            !.currentChunkLength = Len(ChunkAt(q)),
            !.lastKnownCharOffset = 0]

\* stop that leaves the retry count as it is
stop_keepRetries(q) ==
  LET q1 == ttsCancel(q)
      q2 == emitState([q1 EXCEPT !.state = "stopped"])
      q3 == resetOffsets(q2)
  IN [dropHandle(q3) EXCEPT !.attempts = 0]

stop(q) ==
  LET q1 == ttsCancel(q)
      q2 == emitState([q1 EXCEPT !.state = "stopped"])
      q3 == resetOffsets(q2)
  IN [dropHandle(q3) EXCEPT !.retries = 0, !.attempts = 0]

\* speakCurrent that hands the remaining text to the engine even when there
\* is none
speakCurrent_speakEmpty(q) ==
  IF Len(q.chunks) = 0 THEN stop(q)
  ELSE LET chunk == ChunkAt(q)
           offset == Min(q.resumeFromOffset, Len(chunk))
           remaining == Slice(chunk, offset)
           q1 == [q EXCEPT !.spokenOffsetBase = offset,
                           !.currentChunkLength = Len(chunk),
                           !.lastKnownCharOffset = offset,
                           !.resumeFromOffset = 0]
       IN speak(emitProgress(emitIndex(q1)), remaining)

RECURSIVE speakCurrent(_)
RECURSIVE autoAdvance(_)

speakCurrent(q) ==
  IF Len(q.chunks) = 0 THEN stop(q)
  ELSE LET chunk == ChunkAt(q)
           offset == Min(q.resumeFromOffset, Len(chunk))
           remaining == Slice(chunk, offset)
           q1 == [q EXCEPT !.spokenOffsetBase = offset,
                           !.currentChunkLength = Len(chunk),
                           !.lastKnownCharOffset = offset,
                           !.resumeFromOffset = 0]
       IN IF remaining = <<>> THEN autoAdvance(q1)
          ELSE speak(emitProgress(emitIndex(q1)), remaining)

\* autoAdvance that carries the retry count over to the next chunk
autoAdvance_keepRetries(q) ==
  IF q.index < Len(q.chunks) - 1
  THEN speakCurrent([q EXCEPT !.index = @ + 1, !.attempts = 0])
  ELSE stop(q)

\* autoAdvance that resynthesizes the chunk it stands on
autoAdvance_sameChunk(q) ==
  IF q.index < Len(q.chunks) - 1
  THEN speakCurrent([q EXCEPT !.retries = 0, !.attempts = 0])
  ELSE stop(q)

autoAdvance(q) ==
  IF q.index < Len(q.chunks) - 1
  THEN speakCurrent([q EXCEPT !.index = @ + 1, !.retries = 0, !.attempts = 0])
  ELSE stop(q)

\* restartCurrent that forgets the offset it is given
restartCurrent_fromStart(q, offset) ==
  IF Len(q.chunks) = 0 THEN q
  ELSE LET q1 == ttsCancel(detach(q))
       IN speakCurrent([q1 EXCEPT !.retries = 0, !.attempts = 0,
                                  !.resumeFromOffset = 0])

restartCurrent(q, offset) ==
  IF Len(q.chunks) = 0 THEN q
  ELSE LET q1 == ttsCancel(detach(q))
       IN speakCurrent([q1 EXCEPT !.retries = 0, !.attempts = 0,
                                  !.resumeFromOffset =
                                     Max(0, Min(offset, q.currentChunkLength))])

\* the three callbacks speakCurrent hands to speak()
onboundary(q, delta) ==
  emitProgress([q EXCEPT !.boundarySupported = TRUE,
                         !.lastKnownCharOffset =
                            Min(q.spokenOffsetBase + delta, q.currentChunkLength)])

\* onend that does not look at the state
onend_anyState(q) ==
  autoAdvance(resetOffsets(q))

onend(q) ==
  IF q.state # "playing" THEN q
  ELSE autoAdvance(resetOffsets(q))

onerror(q) ==
  IF q.retries < 2
  THEN speakCurrent([q EXCEPT !.retries = @ + 1,
                              !.resumeFromOffset = q.lastKnownCharOffset])
  ELSE autoAdvance(resetOffsets(emitError(q)))

\* setChunks that keeps the index as it is
setChunks_noClamp(q, c) ==
  LET q1 == [q EXCEPT !.chunks = c]
  IN emitIndex(resetOffsets(q1))

setChunks(q, c) ==
  LET q1 == [q EXCEPT !.chunks = c,
                      !.index = Min(q.index, Max(Len(c) - 1, 0))]
  IN emitIndex(resetOffsets(q1))

\* updateSettings that restarts the current chunk whatever the state
updateSettings_anyState(q, patch) ==
  LET prevRate == q.settings.rate
      prevVoice == q.settings.voice
      q1 == [q EXCEPT !.settings = [rate |-> Coalesce(patch.rate, q.settings.rate),
                                    volume |-> Coalesce(patch.volume, q.settings.volume),
                                    voice |-> Coalesce(patch.voice, q.settings.voice)]]
      rateChanged == patch.rate # Undefined /\ patch.rate # prevRate
      voiceChanged == patch.voice # Undefined /\ patch.voice # prevVoice
  IN IF voiceChanged THEN restartCurrent(q1, 0)
     ELSE IF rateChanged
          THEN restartCurrent(q1, IF q.boundarySupported
                                  THEN q.lastKnownCharOffset ELSE 0)
          ELSE q1

\* updateSettings that looks at the rate before it looks at the voice
updateSettings_rateFirst(q, patch) ==
  LET prevRate == q.settings.rate
      prevVoice == q.settings.voice
      q1 == [q EXCEPT !.settings = [rate |-> Coalesce(patch.rate, q.settings.rate),
                                    volume |-> Coalesce(patch.volume, q.settings.volume),
                                    voice |-> Coalesce(patch.voice, q.settings.voice)]]
      rateChanged == patch.rate # Undefined /\ patch.rate # prevRate
      voiceChanged == patch.voice # Undefined /\ patch.voice # prevVoice
  IN IF rateChanged /\ q.state = "playing"
     THEN restartCurrent(q1, IF q.boundarySupported
                             THEN q.lastKnownCharOffset ELSE 0)
     ELSE IF voiceChanged /\ q.state = "playing" THEN restartCurrent(q1, 0)
          ELSE q1

updateSettings(q, patch) ==
  LET prevRate == q.settings.rate
      prevVoice == q.settings.voice
      q1 == [q EXCEPT !.settings = [rate |-> Coalesce(patch.rate, q.settings.rate),
                                    volume |-> Coalesce(patch.volume, q.settings.volume),
                                    voice |-> Coalesce(patch.voice, q.settings.voice)]]
      rateChanged == patch.rate # Undefined /\ patch.rate # prevRate
      voiceChanged == patch.voice # Undefined /\ patch.voice # prevVoice
  IN IF voiceChanged /\ q.state = "playing" THEN restartCurrent(q1, 0)
     ELSE IF rateChanged /\ q.state = "playing"
          THEN restartCurrent(q1, IF q.boundarySupported
                                  THEN q.lastKnownCharOffset ELSE 0)
          ELSE q1

resume(q) ==
  IF q.state # "paused" THEN q
  ELSE emitState([ttsResume(q) EXCEPT !.state = "playing"])

\* pause that does not look at the state
pause_anyState(q) == emitState([ttsPause(q) EXCEPT !.state = "paused"])

pause(q) ==
  IF q.state # "playing" THEN q
  ELSE emitState([ttsPause(q) EXCEPT !.state = "paused"])

play(q, startIndex) ==
  LET q1 == IF startIndex # Undefined
            THEN resetOffsets([q EXCEPT !.index =
                                 Max(0, Min(startIndex, Len(q.chunks) - 1))])
            ELSE q
  IN IF q1.state = "paused" THEN resume(q1)
     ELSE IF q1.state = "playing" THEN q1
     ELSE speakCurrent(emitState([q1 EXCEPT !.state = "playing", !.attempts = 0]))

\* next that does not cancel the utterance in flight
next_noCancel(q) ==
  IF Len(q.chunks) = 0 THEN q
  ELSE LET q1 == resetOffsets([q EXCEPT !.index = Min(q.index + 1, Len(q.chunks) - 1)])
       IN IF q1.state = "playing"
          THEN speakCurrent([q1 EXCEPT !.attempts = 0])
          ELSE emitIndex(q1)

next(q) ==
  IF Len(q.chunks) = 0 THEN q
  ELSE LET q1 == resetOffsets([q EXCEPT !.index = Min(q.index + 1, Len(q.chunks) - 1)])
       IN IF q1.state = "playing"
          THEN speakCurrent([ttsCancel(q1) EXCEPT !.attempts = 0])
          ELSE emitIndex(q1)

\* prev that does not look at the length of the sequence
prev_noEmptyGuard(q) ==
  LET q1 == resetOffsets([q EXCEPT !.index = Max(q.index - 1, 0)])
  IN IF q1.state = "playing"
     THEN speakCurrent([ttsCancel(q1) EXCEPT !.attempts = 0])
     ELSE emitIndex(q1)

prev(q) ==
  IF Len(q.chunks) = 0 THEN q
  ELSE LET q1 == resetOffsets([q EXCEPT !.index = Max(q.index - 1, 0)])
       IN IF q1.state = "playing"
          THEN speakCurrent([ttsCancel(q1) EXCEPT !.attempts = 0])
          ELSE emitIndex(q1)

\* seek that leaves a playing controller playing when no playback is asked for
seek_keepState(q, idx, optPlay) ==
  IF Len(q.chunks) = 0 THEN q
  ELSE LET q1 == [q EXCEPT !.index = Max(0, Min(idx, Len(q.chunks) - 1))]
           q2 == resetOffsets(dropHandle(ttsCancel(q1)))
       IN IF optPlay
          THEN speakCurrent(emitState([q2 EXCEPT !.state = "playing", !.attempts = 0]))
          ELSE emitIndex(q2)

seek(q, idx, optPlay) ==
  IF Len(q.chunks) = 0 THEN q
  ELSE LET q1 == [q EXCEPT !.index = Max(0, Min(idx, Len(q.chunks) - 1))]
           q2 == resetOffsets(dropHandle(ttsCancel(q1)))
       IN IF optPlay
          THEN speakCurrent(emitState([q2 EXCEPT !.state = "playing", !.attempts = 0]))
          ELSE emitIndex(IF q2.state = "playing" THEN pause(q2) ELSE q2)

\* ---------------------------------------------------------------- operations of the
\* current controller that the tests and callers use (seek to an intra-chunk
\* offset, refreshChunks); modelled from the specification and the tests

\* seek({index, offset}, {play}): as seek, then the resolved offset is the
\* remembered intra-chunk offset
seekTo(q, idx, offset, optPlay) ==
  IF Len(q.chunks) = 0 THEN q
  ELSE LET q1 == [q EXCEPT !.index = Max(0, Min(idx, Len(q.chunks) - 1))]
           q2 == resetOffsets(dropHandle(ttsCancel(q1)))
           o == Max(0, Min(offset, q2.currentChunkLength))
           q3 == [q2 EXCEPT !.resumeFromOffset = o, !.lastKnownCharOffset = o]
       IN IF optPlay
          THEN speakCurrent(emitState([q3 EXCEPT !.state = "playing", !.attempts = 0]))
          ELSE LET q4 == emitIndex(IF q3.state = "playing" THEN pause(q3) ELSE q3)
               IN q4

\* refreshChunks(chunks): replace the chunk sequence, clamp the index, keep the
\* intra-chunk offset; while playing the current chunk is resynthesized from it
refreshChunks(q, c) ==
  LET k == q.lastKnownCharOffset
      q1 == resetOffsets([q EXCEPT !.chunks = c,
                                   !.index = Min(q.index, Max(Len(c) - 1, 0))])
      o == Max(0, Min(k, q1.currentChunkLength))
  IN IF q.state = "playing"
     THEN IF Len(c) = 0 THEN stop(q1) ELSE restartCurrent(q1, k)
     ELSE IF q.state = "paused"
          THEN emitIndex([dropHandle(ttsCancel(detach(q1)))
                            EXCEPT !.resumeFromOffset = o, !.lastKnownCharOffset = o])
          ELSE emitIndex(q1)

\* ---------------------------------------------------------------- state machine
Init ==
  /\ chunks \in ChunkLists
  /\ settings = [rate |-> 1, volume |-> 1, voice |-> Null]
  /\ index = 0
  /\ state = "stopped"
  /\ utterance = FALSE
  /\ retries = 0
  /\ resumeFromOffset = 0
  /\ spokenOffsetBase = 0
  /\ currentChunkLength = 0
  /\ boundarySupported = FALSE
  /\ lastKnownCharOffset = 0
  /\ engine = <<>>
  /\ stale = 0
  /\ calls = <<>>
  /\ notes = <<>>
  /\ attempts = 0
  /\ op = "new"
  /\ rawInput = <<>>
  /\ onIndex = Undefined
  /\ onState = "none"

\* the engine holds no more utterances than the model follows
Bounded(r) == Len(r.engine) + r.stale <= MaxUtterances

\* the handler called name has returned with the controller and engine as in r
Returned(name, r) ==
  /\ chunks' = r.chunks
  /\ settings' = r.settings
  /\ index' = r.index
  /\ state' = r.state
  /\ utterance' = r.utterance
  /\ retries' = r.retries
  /\ resumeFromOffset' = r.resumeFromOffset
  /\ spokenOffsetBase' = r.spokenOffsetBase
  /\ currentChunkLength' = r.currentChunkLength
  /\ boundarySupported' = r.boundarySupported
  /\ lastKnownCharOffset' = r.lastKnownCharOffset
  /\ engine' = r.engine
  /\ stale' = r.stale
  /\ calls' = r.calls
  /\ notes' = r.notes
  /\ attempts' = r.attempts
  /\ op' = name
  /\ onIndex' = LET told == SelectSeq(r.notes, LAMBDA x : x.n = "index")
                IN IF told # <<>> THEN told[Len(told)].index ELSE onIndex
  /\ onState' = LET told == SelectSeq(r.notes, LAMBDA x : x.n = "state")
                IN IF told # <<>> THEN told[Len(told)].state ELSE onState

\* the same for a handler of the controller, which knows no text
Apply(name, r) == Returned(name, r) /\ rawInput' = rawInput

\* ---- caller commands (the methods of src/src/player/queue.ts)
SetChunks == \E c \in ChunkLists :
    \E r \in {setChunks(Cur, c)} : Bounded(r) /\ Apply("setChunks", r)
UpdateSettings == \E p \in RatePatches :
    \E r \in {updateSettings(Cur, p)} : Bounded(r) /\ Apply("updateSettings", r)
Play == \E k \in Indices \cup {Undefined} :
    \E r \in {play(Cur, k)} : Bounded(r) /\ Apply("play", r)
Pause == \E r \in {pause(Cur)} : Bounded(r) /\ Apply("pause", r)
Resume == \E r \in {resume(Cur)} : Bounded(r) /\ Apply("resume", r)
Stop == \E r \in {stop(Cur)} : Bounded(r) /\ Apply("stop", r)
DoNext == \E r \in {next(Cur)} : Bounded(r) /\ Apply("next", r)
Prev == \E r \in {prev(Cur)} : Bounded(r) /\ Apply("prev", r)
Seek == \E k \in Indices, p \in BOOLEAN :
    \E r \in {seek(Cur, k, p)} : Bounded(r) /\ Apply("seek", r)

\* ---- the engine delivering events
Tail1(s) == SubSeq(s, 2, Len(s))

\* the utterance at the head of the engine's queue is the one being spoken
EngineBoundary ==
  /\ engine # <<>> /\ engine[1].attached
  /\ \E d \in 0 .. (Len(engine[1].text) - 1) :
       \E r \in {onboundary(Cur, d)} : Bounded(r) /\ Apply("onboundary", r)

EngineEnd ==
  /\ engine # <<>> /\ engine[1].attached
  /\ \E r \in {onend([Cur EXCEPT !.engine = Tail1(engine)])} : Bounded(r) /\ Apply("onend", r)

EngineError ==
  /\ engine # <<>> /\ engine[1].attached
  /\ \E r \in {onerror([Cur EXCEPT !.engine = Tail1(engine)])} : Bounded(r) /\ Apply("onerror", r)

\* a cancelled utterance delivers an event late: a boundary event that was
\* already under way, or its final end or error event
LateBoundary ==
  /\ stale > 0
  /\ \E d \in 0 .. (MaxChunkLen - 1) :
       \E r \in {onboundary(Cur, d)} : Bounded(r) /\ Apply("onboundary", r)

LateEnd ==
  /\ stale > 0
  /\ \E r \in {onend([Cur EXCEPT !.stale = @ - 1])} : Bounded(r) /\ Apply("onend", r)

LateError ==
  /\ stale > 0
  /\ \E r \in {onerror([Cur EXCEPT !.stale = @ - 1])} : Bounded(r) /\ Apply("onerror", r)

\* the engine drops a cancelled utterance without reporting anything
EngineDiscard ==
  /\ stale > 0
  /\ \E r \in {[Cur EXCEPT !.stale = @ - 1]} : Bounded(r) /\ Apply("discard", r)

Next ==
  \/ SetChunks
  \/ UpdateSettings
  \/ Play
  \/ Pause
  \/ Resume
  \/ Stop
  \/ DoNext
  \/ Prev
  \/ Seek
  \/ EngineBoundary
  \/ EngineEnd
  \/ EngineError
  \/ LateBoundary
  \/ LateEnd
  \/ LateError
  \/ EngineDiscard

Spec == Init /\ [][Next]_vars

\* ---- the controller with seek to an intra-chunk offset and refreshChunks,
\* on an engine that reports nothing for a cancelled utterance, with patches
\* of rate and voice
Quiet(r) == [r EXCEPT !.stale = 0]

QSetChunks == \E c \in ChunkLists :
    \E r \in {Quiet(setChunks(Cur, c))} : Bounded(r) /\ Apply("setChunks", r)
QRefreshChunks == \E c \in ChunkLists :
    \E r \in {Quiet(refreshChunks(Cur, c))} : Bounded(r) /\ Apply("refreshChunks", r)
QUpdateSettings == \E p \in VoicePatches :
    \E r \in {Quiet(updateSettings(Cur, p))} : Bounded(r) /\ Apply("updateSettings", r)
QPlay == \E k \in Indices \cup {Undefined} :
    \E r \in {Quiet(play(Cur, k))} : Bounded(r) /\ Apply("play", r)
QPause == \E r \in {Quiet(pause(Cur))} : Bounded(r) /\ Apply("pause", r)
QResume == \E r \in {Quiet(resume(Cur))} : Bounded(r) /\ Apply("resume", r)
QStop == \E r \in {Quiet(stop(Cur))} : Bounded(r) /\ Apply("stop", r)
QNext == \E r \in {Quiet(next(Cur))} : Bounded(r) /\ Apply("next", r)
QPrev == \E r \in {Quiet(prev(Cur))} : Bounded(r) /\ Apply("prev", r)
QSeek == \E k \in Indices, p \in BOOLEAN :
    \E r \in {Quiet(seek(Cur, k, p))} : Bounded(r) /\ Apply("seek", r)
QSeekTo == \E k \in 0 .. 2, o \in Offsets, p \in BOOLEAN :
             \E r \in {Quiet(seekTo(Cur, k, o, p))} : Bounded(r) /\ Apply("seek", r)
QBoundary ==
  /\ engine # <<>> /\ engine[1].attached
  /\ \E d \in 0 .. (Len(engine[1].text) - 1) :
       \E r \in {Quiet(onboundary(Cur, d))} : Bounded(r) /\ Apply("onboundary", r)
QEnd ==
  /\ engine # <<>> /\ engine[1].attached
  /\ \E r \in {Quiet(onend([Cur EXCEPT !.engine = Tail1(engine)]))} : Bounded(r) /\ Apply("onend", r)
QError ==
  /\ engine # <<>> /\ engine[1].attached
  /\ \E r \in {Quiet(onerror([Cur EXCEPT !.engine = Tail1(engine)]))} : Bounded(r) /\ Apply("onerror", r)

NextQuiet ==
  \/ QSetChunks
  \/ QRefreshChunks
  \/ QUpdateSettings
  \/ QPlay
  \/ QPause
  \/ QResume
  \/ QStop
  \/ QNext
  \/ QPrev
  \/ QSeek
  \/ QSeekTo
  \/ QBoundary
  \/ QEnd
  \/ QError

SpecQuiet == Init /\ [][NextQuiet]_vars

\* ---- the same again, with patches of the volume
VUpdateSettings == \E p \in VolumePatches :
    \E r \in {Quiet(updateSettings(Cur, p))} : Bounded(r) /\ Apply("updateSettings", r)

NextVolume ==
  \/ QSetChunks
  \/ QRefreshChunks
  \/ VUpdateSettings
  \/ QPlay
  \/ QPause
  \/ QResume
  \/ QStop
  \/ QNext
  \/ QPrev
  \/ QSeek
  \/ QSeekTo
  \/ QBoundary
  \/ QEnd
  \/ QError

SpecVolume == Init /\ [][NextVolume]_vars

\* ---- the controller where no speech engine is available. engine.js speak()
\* throws before it builds an utterance; cancel(), pause() and resume() do
\* nothing. Every handler makes its speak call last, so a handler that gets to
\* speak has run as it does with an engine, the exception leaves it from there
\* (logged as the call "throw"), this.utterance is not assigned and no
\* utterance exists.
speakThrows(r) ==
  IF \E i \in DOMAIN r.calls : r.calls[i].op = "speak"
  THEN [r EXCEPT !.calls = Append(@, [op |-> "throw"]),
                 !.utterance = FALSE, !.engine = <<>>, !.stale = 0]
  ELSE [r EXCEPT !.engine = <<>>, !.stale = 0]

NSetChunks == \E c \in ChunkLists :
    \E r \in {speakThrows(setChunks(Cur, c))} : Bounded(r) /\ Apply("setChunks", r)
NUpdateSettings == \E p \in RatePatches :
    \E r \in {speakThrows(updateSettings(Cur, p))} : Bounded(r) /\ Apply("updateSettings", r)
NPlay == \E k \in Indices \cup {Undefined} :
    \E r \in {speakThrows(play(Cur, k))} : Bounded(r) /\ Apply("play", r)
NPause == \E r \in {speakThrows(pause(Cur))} : Bounded(r) /\ Apply("pause", r)
NResume == \E r \in {speakThrows(resume(Cur))} : Bounded(r) /\ Apply("resume", r)
NStop == \E r \in {speakThrows(stop(Cur))} : Bounded(r) /\ Apply("stop", r)
NNext == \E r \in {speakThrows(next(Cur))} : Bounded(r) /\ Apply("next", r)
NPrev == \E r \in {speakThrows(prev(Cur))} : Bounded(r) /\ Apply("prev", r)
NSeek == \E k \in Indices, p \in BOOLEAN :
    \E r \in {speakThrows(seek(Cur, k, p))} : Bounded(r) /\ Apply("seek", r)

NextNoEngine ==
  \/ NSetChunks
  \/ NUpdateSettings
  \/ NPlay
  \/ NPause
  \/ NResume
  \/ NStop
  \/ NNext
  \/ NPrev
  \/ NSeek

SpecNoEngine == Init /\ [][NextNoEngine]_vars

\* ---- the playback hook of PlaybackHeader.tsx: the boundary index of the
\* chunk sequence and the seek to an absolute character position

\* toChunkBoundaries: one {start, end} per chunk, by a running cursor
RECURSIVE pushBoundaries(_, _, _)
\* the loop of toChunkBoundaries with an end that leaves out the last character
pushBoundaries_shortEnd(cs, i, acc) ==
  IF i > Len(cs) THEN acc
  ELSE LET length == Len(cs[i])
       IN pushBoundaries(cs, i + 1,
            [boundaries |-> Append(acc.boundaries,
                                   [start |-> acc.total, end |-> acc.total + length - 1]),
             total |-> acc.total + length])

pushBoundaries(cs, i, acc) ==
  IF i > Len(cs) THEN acc
  ELSE LET length == Len(cs[i])
       IN pushBoundaries(cs, i + 1,
            [boundaries |-> Append(acc.boundaries,
                                   [start |-> acc.total, end |-> acc.total + length]),
             total |-> acc.total + length])

toChunkBoundaries(cs) == pushBoundaries(cs, 1, [boundaries |-> <<>>, total |-> 0])

\* the loop of seekCharPosition over the boundaries from idx on (idx counts
\* from 1 here, targetIndex from 0 as in the source)
RECURSIVE locateFrom(_, _, _, _)
\* the loop of seekCharPosition with an interval that is open at its end
locateFrom_openEnd(bs, clamped, idx, acc) ==
  IF idx > Len(bs) THEN acc
  ELSE LET start == bs[idx].start
           end == bs[idx].end
       IN IF clamped >= start /\ clamped < end
          THEN [targetIndex |-> idx - 1, offset |-> clamped - start]
          ELSE IF clamped >= end
               THEN locateFrom(bs, clamped, idx + 1,
                               [targetIndex |-> idx - 1, offset |-> end - start])
               ELSE locateFrom(bs, clamped, idx + 1, acc)

locateFrom(bs, clamped, idx, acc) ==
  IF idx > Len(bs) THEN acc
  ELSE LET start == bs[idx].start
           end == bs[idx].end
       IN IF clamped >= start /\ clamped <= end
          THEN [targetIndex |-> idx - 1, offset |-> clamped - start]
          ELSE IF clamped > end
               THEN locateFrom(bs, clamped, idx + 1,
                               [targetIndex |-> idx - 1, offset |-> end - start])
               ELSE locateFrom(bs, clamped, idx + 1, acc)

\* the target index and offset seekCharPosition resolves position to
locate(cs, position) ==
  LET t == toChunkBoundaries(cs)
      clamped == Max(0, Min(position, t.total))
  IN locateFrom(t.boundaries, clamped, 1, [targetIndex |-> 0, offset |-> 0])

seekCharPosition(q, position) ==
  IF Len(q.chunks) = 0 THEN q
  ELSE LET loc == locate(q.chunks, position)
           shouldPlay == q.state = "playing"
       IN seekTo(q, loc.targetIndex, loc.offset, shouldPlay)

togglePlayPause(q) ==
  IF Len(q.chunks) = 0 THEN q
  ELSE IF q.state = "playing" THEN pause(q)
  ELSE IF q.state = "paused" THEN resume(q)
  ELSE play(q, Undefined)

\* chunk sequences of up to MaxPositionChunks chunks of one or two characters,
\* and the positions from one before the first to one past the last character
MaxPositionChunks == 3
PositionChunks == {cc, ab}
PositionChunkLists ==
  UNION {[1 .. n -> PositionChunks] : n \in 0 .. MaxPositionChunks}
Positions == (0 - 1) .. (MaxPositionChunks * MaxChunkLen + 1)

InitPosition ==
  /\ chunks \in PositionChunkLists
  /\ settings = [rate |-> 1, volume |-> 1, voice |-> Null]
  /\ index = 0
  /\ state = "stopped"
  /\ utterance = FALSE
  /\ retries = 0
  /\ resumeFromOffset = 0
  /\ spokenOffsetBase = 0
  /\ currentChunkLength = 0
  /\ boundarySupported = FALSE
  /\ lastKnownCharOffset = 0
  /\ engine = <<>>
  /\ stale = 0
  /\ calls = <<>>
  /\ notes = <<>>
  /\ attempts = 0
  /\ op = "new"
  /\ rawInput = <<>>
  /\ onIndex = Undefined
  /\ onState = "none"

PSeekCharPosition == \E p \in Positions :
    \E r \in {Quiet(seekCharPosition(Cur, p))} : Bounded(r) /\ Apply("seekCharPosition", r)
PTogglePlayPause ==
    \E r \in {Quiet(togglePlayPause(Cur))} : Bounded(r) /\ Apply("togglePlayPause", r)

NextPosition ==
  \/ PSeekCharPosition
  \/ PTogglePlayPause

SpecPosition == InitPosition /\ [][NextPosition]_vars

\* ---- the segmenter of src/src/segmentation/japanese.ts. A text is the
\* sequence of its characters. The model's texts are written with the
\* characters a b c, space, tab, newline, the sentence terminator "!", the
\* closing bracket ")", the list markers "-" "1" "." "(" and "%"; rules of the
\* source about other characters (zero-width characters, no-break space,
\* dashes other than "-", "No.", "(株)", the middle dot) never apply to them.
MAX_LEN == 260
MIN_LEN == 120

MinOf(S) == CHOOSE x \in S : \A y \in S : x <= y
MaxOf(S) == CHOOSE x \in S : \A y \in S : x >= y

\* the positions of text whose character is in the set cls
PositionsOf(text, cls) == {k \in 1 .. Len(text) : text[k] \in cls}

\* P a set of positions, i in P: where the run of neighbouring positions of P
\* that holds i ends, and where it starts
RunEnd(P, i) == MinOf({k \in P : k >= i /\ (k + 1) \notin P})
RunStart(P, i) == MaxOf({k \in P : k <= i /\ (k - 1) \notin P})

\* \s of a JavaScript regular expression, and what String.trim() strips
Whitespace == {" ", "\t", "\n"}
Terminators == {"!"}
Closers == {")"}
Digits == {"1"}

\* a trim that strips nothing
trim_nothing(text) == text

\* String.prototype.trim
trim(text) ==
  LET ws == PositionsOf(text, Whitespace)
      a == IF 1 \in ws THEN RunEnd(ws, 1) + 1 ELSE 1
      b == IF Len(text) \in ws THEN RunStart(ws, Len(text)) - 1 ELSE Len(text)
  IN IF a > b THEN <<>> ELSE SubSeq(text, a, b)

After(text, k) == SubSeq(text, k + 1, Len(text))
Before(text, k) == SubSeq(text, 1, k - 1)

\* .replace(/[\t\f\v\r]/g, " ")
replaceTabs(text) ==
  [k \in 1 .. Len(text) |-> IF text[k] = "\t" THEN " " ELSE text[k]]

\* .replace(/[%％]/g, " パーセント "): a space, five letters, a space
Percent == <<" ", "p", "p", "p", "p", "p", " ">>
RECURSIVE replacePercent(_)
replacePercent(text) ==
  LET at == PositionsOf(text, {"%"})
  IN IF at = {} THEN text
     ELSE LET k == MinOf(at)
          IN Before(text, k) \o Percent \o replacePercent(After(text, k))

\* .replace(/\s+\n/g, "\n"): the leftmost match starts a run of whitespace
\* that has a newline after its first character, and, \s+ being greedy,
\* ends with the last newline of that run
RECURSIVE replaceSpaceNewline(_)
replaceSpaceNewline(text) ==
  LET ws == PositionsOf(text, Whitespace)
      newlineIn(a) == {k \in ws : k > a /\ k <= RunEnd(ws, a) /\ text[k] = "\n"}
      starts == {a \in ws : (a - 1) \notin ws /\ newlineIn(a) # {}}
  IN IF starts = {} THEN text
     ELSE LET a == MinOf(starts)
              last == MaxOf(newlineIn(a))
          IN Before(text, a) \o <<"\n">> \o replaceSpaceNewline(After(text, last))

\* .replace(/\n{3,}/g, "\n\n")
RECURSIVE replaceNewlines(_)
replaceNewlines(text) ==
  LET nl == PositionsOf(text, {"\n"})
      starts == {a \in nl : (a - 1) \notin nl /\ RunEnd(nl, a) >= a + 2}
  IN IF starts = {} THEN text
     ELSE LET a == MinOf(starts)
          IN Before(text, a) \o <<"\n", "\n">>
               \o replaceNewlines(After(text, RunEnd(nl, a)))

preprocess(text) ==
  IF text = <<>> THEN <<>>
  ELSE trim(replaceNewlines(replaceSpaceNewline(replacePercent(replaceTabs(text)))))

\* String.split(/\n/) and String.split(/\n{2,}/)
RECURSIVE splitLines(_)
splitLines(text) ==
  LET nl == PositionsOf(text, {"\n"})
  IN IF nl = {} THEN <<text>>
     ELSE LET k == MinOf(nl)
          IN <<Before(text, k)>> \o splitLines(After(text, k))

RECURSIVE splitParagraphs(_)
splitParagraphs(text) ==
  LET nl == PositionsOf(text, {"\n"})
      starts == {k \in nl : (k + 1) \in nl}
  IN IF starts = {} THEN <<text>>
     ELSE LET k == MinOf(starts)
          IN <<Before(text, k)>> \o splitParagraphs(After(text, RunEnd(nl, k)))

\* Array.join(" ")
RECURSIVE join(_)
join(texts) ==
  IF texts = <<>> THEN <<>>
  ELSE IF Len(texts) = 1 THEN texts[1]
  ELSE texts[1] \o <<" ">> \o join(Tail(texts))

\* splitSentences: the loop of re.exec with
\* /([^。!！?？]+[。!！?？]?[」』】)]?)/g from position pos on. A match starts
\* at the first character that is no terminator, runs up to the next
\* terminator, takes it, and takes a closing bracket that follows it.
RECURSIVE execSentences(_, _, _)
execSentences(block, pos, out) ==
  LET tp == PositionsOf(block, Terminators)
      i == IF pos \in tp THEN RunEnd(tp, pos) + 1 ELSE pos
  IN IF i > Len(block) THEN out
     ELSE LET later == {k \in tp : k > i}
              upTo == IF later = {} THEN Len(block) ELSE MinOf(later)
              e == IF later # {} /\ upTo + 1 <= Len(block) /\ block[upTo + 1] \in Closers
                   THEN upTo + 1 ELSE upTo
              s == trim(SubSeq(block, i, e))
          IN execSentences(block, e + 1, IF s # <<>> THEN Append(out, s) ELSE out)

splitSentences(block) ==
  LET out == execSentences(block, 1, <<>>)
  IN IF out # <<>> THEN out ELSE <<trim(block)>>

\* bulletRe.test(line), /^(?:\s*[-*・]|\s*\d+[\).]|\s*\([0-9]+\)\s*)/
\* ("+" stands for the middle dot)
bulletRe(line) ==
  LET ws == PositionsOf(line, Whitespace)
      ds == PositionsOf(line, Digits)
      a == IF 1 \in ws THEN RunEnd(ws, 1) + 1 ELSE 1
      isAt(k, cls) == k <= Len(line) /\ line[k] \in cls
  IN \/ isAt(a, {"-", "*", "+"})
     \/ isAt(a, Digits) /\ isAt(RunEnd(ds, a) + 1, {")", "."})
     \/ isAt(a, {"("}) /\ isAt(a + 1, Digits) /\ isAt(RunEnd(ds, a + 1) + 1, {")"})

\* splitBullets: the loop over the lines, with the blocks pushed so far and
\* the buffer of prose lines
flushBuf(blocks, buf) ==
  IF buf # <<>> THEN Append(blocks, trim(join(buf))) ELSE blocks

\* splitBullets' loop taking a list item for a line of prose
RECURSIVE eachLine_itemAsProse(_, _, _)
eachLine_itemAsProse(lines, blocks, buf) ==
  IF lines = <<>> THEN flushBuf(blocks, buf)
  ELSE LET line == Head(lines)
       IN IF trim(line) = <<>>
          THEN eachLine_itemAsProse(Tail(lines), flushBuf(blocks, buf), <<>>)
          ELSE eachLine_itemAsProse(Tail(lines), blocks, Append(buf, trim(line)))

RECURSIVE eachLine(_, _, _)
eachLine(lines, blocks, buf) ==
  IF lines = <<>> THEN flushBuf(blocks, buf)
  ELSE LET line == Head(lines)
       IN IF bulletRe(line)
          THEN eachLine(Tail(lines), Append(flushBuf(blocks, buf), trim(line)), <<>>)
          ELSE IF trim(line) = <<>>
          THEN eachLine(Tail(lines), flushBuf(blocks, buf), <<>>)
          ELSE eachLine(Tail(lines), blocks, Append(buf, trim(line)))

splitBullets(text) == eachLine(splitLines(text), <<>>, <<>>)

\* chunkByLength's loop joining a sentence to the chunk being filled whatever
\* the length of the result
RECURSIVE eachSentence_noLimit(_, _, _)
eachSentence_noLimit(sentences, pushed, current) ==
  IF sentences = <<>>
  THEN IF current # <<>> THEN Append(pushed, current) ELSE pushed
  ELSE LET trimmed == trim(Head(sentences))
           rest == Tail(sentences)
       IN IF trimmed = <<>> THEN eachSentence_noLimit(rest, pushed, current)
          ELSE IF current = <<>> THEN eachSentence_noLimit(rest, pushed, trimmed)
          ELSE eachSentence_noLimit(rest, pushed, trim(current \o <<" ">> \o trimmed))

\* chunkByLength's loop filling a chunk up to MIN_LEN instead of MAX_LEN
RECURSIVE eachSentence_minLimit(_, _, _)
eachSentence_minLimit(sentences, pushed, current) ==
  IF sentences = <<>>
  THEN IF current # <<>> THEN Append(pushed, current) ELSE pushed
  ELSE LET trimmed == trim(Head(sentences))
           rest == Tail(sentences)
       IN IF trimmed = <<>> THEN eachSentence_minLimit(rest, pushed, current)
          ELSE IF current = <<>> THEN eachSentence_minLimit(rest, pushed, trimmed)
          ELSE IF Len(current \o <<" ">> \o trimmed) <= MIN_LEN
          THEN eachSentence_minLimit(rest, pushed, trim(current \o <<" ">> \o trimmed))
          ELSE eachSentence_minLimit(rest, Append(pushed, current), trimmed)

\* chunkByLength: the forEach over the sentences, with the chunks pushed so
\* far and the chunk being filled
RECURSIVE eachSentence(_, _, _)
eachSentence(sentences, pushed, current) ==
  IF sentences = <<>>
  THEN IF current # <<>> THEN Append(pushed, current) ELSE pushed
  ELSE LET trimmed == trim(Head(sentences))
           rest == Tail(sentences)
       IN IF trimmed = <<>> THEN eachSentence(rest, pushed, current)
          ELSE IF current = <<>> THEN eachSentence(rest, pushed, trimmed)
          ELSE IF Len(current \o <<" ">> \o trimmed) <= MAX_LEN
          THEN eachSentence(rest, pushed, trim(current \o <<" ">> \o trimmed))
          ELSE eachSentence(rest, Append(pushed, current), trimmed)

chunkByLength(sentences) ==
  IF sentences = <<>> THEN <<>> ELSE eachSentence(sentences, <<>>, <<>>)

\* mergeShortChunks' loop merging a short chunk with its follower whatever
\* the length of the result
RECURSIVE eachChunk_noMax(_, _)
eachChunk_noMax(cs, merged) ==
  IF cs = <<>> THEN merged
  ELSE LET trimmed == trim(Head(cs))
           rest == Tail(cs)
       IN IF trimmed = <<>> THEN eachChunk_noMax(rest, merged)
          ELSE IF merged = <<>> THEN eachChunk_noMax(rest, <<trimmed>>)
          ELSE LET prevChunk == merged[Len(merged)]
               IN IF Len(prevChunk) < MIN_LEN
                  THEN eachChunk_noMax(rest, [merged EXCEPT ![Len(merged)] =
                                                trim(prevChunk \o <<" ">> \o trimmed)])
                  ELSE eachChunk_noMax(rest, Append(merged, trimmed))

\* mergeShortChunks: the loop over the chunks, with the chunks merged so far
RECURSIVE eachChunk(_, _)
eachChunk(cs, merged) ==
  IF cs = <<>> THEN merged
  ELSE LET trimmed == trim(Head(cs))
           rest == Tail(cs)
       IN IF trimmed = <<>> THEN eachChunk(rest, merged)
          ELSE IF merged = <<>> THEN eachChunk(rest, <<trimmed>>)
          ELSE LET prevChunk == merged[Len(merged)]
               IN IF Len(prevChunk) < MIN_LEN /\ Len(prevChunk \o <<" ">> \o trimmed) <= MAX_LEN
                  THEN eachChunk(rest, [merged EXCEPT ![Len(merged)] =
                                          trim(prevChunk \o <<" ">> \o trimmed)])
                  ELSE eachChunk(rest, Append(merged, trimmed))

mergeShortChunks(cs) ==
  IF cs = <<>> THEN <<>> ELSE eachChunk(cs, <<>>)

\* Array.push(...items) for each of lists in turn
RECURSIVE pushAll(_)
pushAll(lists) ==
  IF lists = <<>> THEN <<>> ELSE Head(lists) \o pushAll(Tail(lists))

\* the blocks of all paragraphs of a preprocessed text, in order
blocksOf(normalized) ==
  LET paragraphs == splitParagraphs(normalized)
  IN pushAll([k \in 1 .. Len(paragraphs) |-> splitBullets(paragraphs[k])])

\* what segmentJapanese does with one block
segmentBlock(block) == mergeShortChunks(chunkByLength(splitSentences(block)))

segmentJapanese(raw) ==
  IF raw = <<>> THEN <<>>
  ELSE LET normalized == preprocess(raw)
       IN IF normalized = <<>> THEN <<>>
          ELSE LET blocks == blocksOf(normalized)
               IN pushAll([k \in 1 .. Len(blocks) |-> segmentBlock(blocks[k])])

\* ---- the App holding a text: every change of rawInput is segmented anew and
\* the chunks are handed to the controller (app.tsx: useMemo, then the effect
\* with queue.stop() and queue.setChunks(chunks)).
setRawInput(q, text) == setChunks(stop(q), segmentJapanese(text))

\* The texts: what can be typed with up to MaxTextLen of TextChars, and what
\* can be put together from up to MaxSentences sentences of SentenceLengths
\* characters, each on the same line as the one before, on a new line, or on
\* a new line as a list item.
MaxTextLen == 4
MaxSentences == 3
TextChars == {"a", " ", "\t", "\n", "!", ")", "-", "1", ".", "(", "%"}
SentenceLengths == {5, 119, 120, 141, 260, 261}
SentenceLetters == <<"a", "b", "c", "d">>
SentenceStarts == {<<>>, <<"\n">>, <<"\n", "-", " ">>}

\* the sentence of n characters made of n - 1 times letter and a terminator
Sentence(letter, n) == [k \in 1 .. n |-> IF k < n THEN letter ELSE "!"]

SentencesIn(text) == Cardinality(PositionsOf(text, Terminators))

TypeChar ==
  /\ Len(rawInput) < MaxTextLen
  /\ \E c \in TextChars :
       \E r \in {Quiet(setRawInput(Cur, Append(rawInput, c)))} :
         Bounded(r) /\ Returned("setRawInput", r) /\ rawInput' = Append(rawInput, c)

PasteSentence ==
  /\ rawInput = <<>> \/ Len(rawInput) > MaxTextLen
  /\ SentencesIn(rawInput) < MaxSentences
  /\ \E n \in SentenceLengths, start \in SentenceStarts :
       LET text == rawInput \o start
                     \o Sentence(SentenceLetters[SentencesIn(rawInput) + 1], n)
       IN \E r \in {Quiet(setRawInput(Cur, text))} :
            Bounded(r) /\ Returned("setRawInput", r) /\ rawInput' = text

NextSegment ==
  \/ TypeChar
  \/ PasteSentence

\* the App starts with no text and the controller with its chunks
InitSegment == Init /\ chunks = segmentJapanese(rawInput)

SpecSegment == InitSegment /\ [][NextSegment]_vars

\* ---- the segmenter that cuts over-long sentences (segmentation/japanese.js):
\* preprocess, splitBullets and splitSentences as above, then enforceMaxLen
\* in place of chunkByLength and mergeShortChunks. "," stands for the
\* ideographic comma and "+" for the middle dot.

\* String.prototype.lastIndexOf, 0-based, -1 when c is not in text
lastIndexOf(text, c) ==
  LET found == PositionsOf(text, {c})
  IN IF found = {} THEN 0 - 1 ELSE MaxOf(found) - 1

\* text.slice(0, k) and text.slice(k)
sliceTo(text, k) == SubSeq(text, 1, k)
sliceFrom(text, k) == SubSeq(text, k + 1, Len(text))

\* enforceMaxLen's inner loop with a hard cut one character too late
RECURSIVE whileRemain_hardCutLate(_, _)
whileRemain_hardCutLate(remain, pushed) ==
  IF Len(remain) > MAX_LEN
  THEN LET piece == sliceTo(remain, MAX_LEN + 1)
           last == Max(Max(lastIndexOf(piece, ","), lastIndexOf(piece, " ")),
                       lastIndexOf(piece, "+"))
           cut == IF 2 * last < MAX_LEN THEN MAX_LEN + 1 ELSE last
       IN whileRemain_hardCutLate(trim(sliceFrom(remain, cut)),
                                  Append(pushed, trim(sliceTo(remain, cut))))
  ELSE IF remain # <<>> THEN Append(pushed, remain) ELSE pushed

\* enforceMaxLen: while (remain.length > MAX_LEN) with the chunks pushed so
\* far, then the push of what remains
RECURSIVE whileRemain(_, _)
whileRemain(remain, pushed) ==
  IF Len(remain) > MAX_LEN
  THEN LET piece == sliceTo(remain, MAX_LEN + 1)
           last == Max(Max(lastIndexOf(piece, ","), lastIndexOf(piece, " ")),
                       lastIndexOf(piece, "+"))
           cut == IF 2 * last < MAX_LEN THEN MAX_LEN ELSE last
       IN whileRemain(trim(sliceFrom(remain, cut)),
                      Append(pushed, trim(sliceTo(remain, cut))))
  ELSE IF remain # <<>> THEN Append(pushed, remain) ELSE pushed

\* enforceMaxLen: the loop over the sentences
RECURSIVE eachOfSentences(_, _)
eachOfSentences(sentences, pushed) ==
  IF sentences = <<>> THEN pushed
  ELSE LET s == Head(sentences)
       IN IF Len(s) <= MAX_LEN
          THEN eachOfSentences(Tail(sentences), Append(pushed, s))
          ELSE eachOfSentences(Tail(sentences), whileRemain(s, pushed))

enforceMaxLen(sentences) == eachOfSentences(sentences, <<>>)

\* blocks.flatMap(splitSentences) of the blocks that are not empty
sentencesOf(text) ==
  LET blocks == SelectSeq(splitBullets(text), LAMBDA b : b # <<>>)
  IN pushAll([k \in 1 .. Len(blocks) |-> splitSentences(blocks[k])])

\* segmentJapanese of segmentation/japanese.js
segmentJapaneseForced(raw) ==
  LET text == preprocess(raw)
  IN IF text = <<>> THEN <<>> ELSE enforceMaxLen(sentencesOf(text))

\* refreshContent of app.js: the text is segmented anew, the controller is
\* stopped and given the chunks
refreshContent(q, text) == setChunks(stop(q), segmentJapaneseForced(text))

\* the sentences pasted: their lengths, where separators stand in them
\* (0: nowhere) and which, and what a second sentence is pasted after
MaxForcedSentences == 2
ForcedLengths == {5, 260, 261, 262, 391, 523}
SeparatorPositions == {0, 2, 130, 131, 261, 262}
Separators == {",", " ", "+"}
ForcedStarts == {<<>>, <<" ">>, <<"\n">>}

\* a sentence of n characters with the separators c1 at p1 and c2 at p2
ForcedSentence(n, p1, c1, p2, c2) ==
  [k \in 1 .. n |-> IF k = n THEN "!"
                    ELSE IF k = p2 THEN c2
                    ELSE IF k = p1 THEN c1
                    ELSE "a"]

PasteLong ==
  /\ rawInput = <<>>
  /\ \E n \in ForcedLengths, p1, p2 \in SeparatorPositions, c1, c2 \in Separators :
       LET text == ForcedSentence(n, p1, c1, p2, c2)
       IN \E r \in {Quiet(refreshContent(Cur, text))} :
            Bounded(r) /\ Returned("refreshContent", r) /\ rawInput' = text

PasteMore ==
  /\ rawInput # <<>>
  /\ SentencesIn(rawInput) < MaxForcedSentences
  /\ \E n \in {5, 262}, p \in {0, 131}, start \in ForcedStarts :
       LET text == rawInput \o start \o ForcedSentence(n, p, " ", 0, " ")
       IN \E r \in {Quiet(refreshContent(Cur, text))} :
            Bounded(r) /\ Returned("refreshContent", r) /\ rawInput' = text

NextForced ==
  \/ PasteLong
  \/ PasteMore

\* app.js starts with no text and no chunks
InitForced == Init /\ chunks = <<>>

SpecForced == InitForced /\ [][NextForced]_vars

\* ---------------------------------------------------------------- reading the logs
SpeakCalls(cs) == SelectSeq(cs, LAMBDA x : x.op = "speak")
CancelCalls(cs) == SelectSeq(cs, LAMBDA x : x.op = "cancel")
ErrorNotes(ns) == SelectSeq(ns, LAMBDA x : x.n = "error")

\* the controller record a handler starts from, seen from a handler result
Fresh(r) == [r EXCEPT !.calls = <<>>, !.notes = <<>>]

\* index, intra-chunk offset, retry count and state are the same in q and r
SamePosition(q, r) ==
  /\ r.index = q.index
  /\ r.lastKnownCharOffset = q.lastKnownCharOffset
  /\ r.retries = q.retries
  /\ r.state = q.state

\* ---------------------------------------------------------------- claims

\* C1 (as claimed): once a caller command has superseded an utterance, a late
\* onEnd, onError or onBoundary callback of that utterance leaves index,
\* intra-chunk offset, retry count and state unchanged and makes no speak call.
C1_StaleEventsInert ==
  stale > 0 =>
    /\ LET r == onend([Cur EXCEPT !.stale = @ - 1])
       IN SamePosition(Cur, r) /\ SpeakCalls(r.calls) = <<>>
    /\ LET r == onerror([Cur EXCEPT !.stale = @ - 1])
       IN SamePosition(Cur, r) /\ SpeakCalls(r.calls) = <<>>
    /\ \A d \in 0 .. (MaxChunkLen - 1) :
         LET r == onboundary(Cur, d)
         IN SamePosition(Cur, r) /\ SpeakCalls(r.calls) = <<>>

\* C2 (as claimed): while playing, a failure of the current utterance before
\* the chunk's third speak call is answered by one more speak call of the same
\* chunk and no error notification; the failure of the third is answered by
\* exactly one error notification and the advance to the next chunk (stopped
\* after the last chunk), and no further speak call of that chunk.
C2_ThreeAttemptsThenSkip ==
  (/\ state = "playing"
   /\ Len(engine) = 1 /\ engine[1].attached
   /\ index < Len(chunks)
   /\ engine[1].text = Slice(ChunkAt(Cur), spokenOffsetBase)) =>
    LET r == onerror([Cur EXCEPT !.engine = Tail1(engine)])
    IN IF attempts < 3
       THEN /\ ErrorNotes(r.notes) = <<>>
            /\ r.index = index
            /\ Len(SpeakCalls(r.calls)) = 1
       ELSE /\ Len(ErrorNotes(r.notes)) = 1
            /\ IF index < Len(chunks) - 1
               THEN r.index > index /\ r.state = "playing"
               ELSE r.state = "stopped" /\ SpeakCalls(r.calls) = <<>>

\* C3 (as claimed): an error notification is emitted only when the chunk that
\* is current has been handed to the engine three times (two automatic
\* retries) since it became current.
C3_ErrorOnlyAfterTwoRetries ==
  [][ErrorNotes(notes') # <<>> => attempts = 3]_vars

\* C4 (as claimed): a seek to chunk k, offset o without play while not playing
\* makes no speak call and leaves getIndex() = k and getCharOffset() = o; the
\* play() that follows makes exactly one speak call, with chunk k from o on.
C4_SeekThenPlay ==
  \A k \in DOMAIN chunks : \A o \in 0 .. (Len(chunks[k]) - 1) :
    state # "playing" =>
      LET r == IF o = 0 THEN seek(Cur, k - 1, FALSE) ELSE seekTo(Cur, k - 1, o, FALSE)
          r2 == play(Fresh(r), Undefined)
      IN /\ SpeakCalls(r.calls) = <<>>
         /\ r.index = k - 1
         /\ r.lastKnownCharOffset = o
         /\ Len(SpeakCalls(r2.calls)) = 1
         /\ SpeakCalls(r2.calls)[1].text = Slice(chunks[k], o)

\* the chunk that is current once the sequence c has replaced chunks
NewCurrent(c) == ChunkAt([chunks |-> c, index |-> Min(index, Max(Len(c) - 1, 0))])

C6_VolumeInPlace ==
  (state = "playing" /\ \E i \in DOMAIN engine : engine[i].handle) =>
    \A v \in Volumes \ {settings.volume} :
      LET r == updateSettings(Cur, [rate |-> Undefined, volume |-> v, voice |-> Undefined])
      IN /\ r.calls = <<>>
         /\ SamePosition(Cur, r)
         /\ r.settings.volume = v
         /\ \A i \in DOMAIN r.engine : r.engine[i].handle => r.engine[i].volume = v

\* the utterance in flight is the controller's latest one and speaks the
\* current chunk from the synthesis start offset
CurrentInFlight ==
  /\ Len(engine) = 1
  /\ engine[1].handle /\ engine[1].attached
  /\ ChunkAt(Cur) # <<>>
  /\ engine[1].text = Slice(ChunkAt(Cur), spokenOffsetBase)

\* C7 (as claimed): a patch that changes the rate (and not the voice) while
\* the current chunk is playing cancels the utterance and makes exactly one
\* speak call at the new rate, with the same chunk from the last known
\* intra-chunk offset if a boundary event has been observed, from 0 if not.
C7_RateRestart ==
  (state = "playing" /\ CurrentInFlight) =>
    \A p \in Patches :
      (/\ p.rate # Undefined /\ p.rate # settings.rate
       /\ (p.voice = Undefined \/ p.voice = settings.voice)) =>
        LET r == updateSettings(Cur, p)
            from == IF boundarySupported THEN lastKnownCharOffset ELSE 0
        IN /\ Len(CancelCalls(r.calls)) = 1
           /\ Len(SpeakCalls(r.calls)) = 1
           /\ SpeakCalls(r.calls)[1].rate = p.rate
           /\ SpeakCalls(r.calls)[1].text = Slice(ChunkAt(Cur), from)
           /\ r.index = index
           /\ r.state = "playing"

\* C8: a patch that changes the voice while playing a chunk makes one cancel
\* and one speak call, with the whole current chunk and the new voice, whatever
\* the intra-chunk offset is and whatever the patch says about rate and volume.
C8_VoiceRestart ==
  (state = "playing" /\ ChunkAt(Cur) # <<>>) =>
    \A p \in Patches :
      (p.voice \in Voices /\ p.voice # settings.voice) =>
        LET r == updateSettings(Cur, p)
        IN /\ Len(CancelCalls(r.calls)) = 1
           /\ Len(SpeakCalls(r.calls)) = 1
           /\ SpeakCalls(r.calls)[1].text = ChunkAt(Cur)
           /\ SpeakCalls(r.calls)[1].voice = p.voice
           /\ SpeakCalls(r.calls)[1].rate = Coalesce(p.rate, settings.rate)
           /\ r.index = index
           /\ r.state = "playing"
           /\ r.lastKnownCharOffset = 0
           /\ r.spokenOffsetBase = 0
           /\ r.retries = 0

\* C8 witness: a patch that changed voice and rate has just restarted a chunk
\* of which a boundary event had been observed, from offset 0
C8_Witness ==
  /\ op = "updateSettings"
  /\ state = "playing"
  /\ boundarySupported
  /\ Len(SpeakCalls(calls)) = 1
  /\ SpeakCalls(calls)[1].voice = 1
  /\ SpeakCalls(calls)[1].rate = 2
  /\ SpeakCalls(calls)[1].text = ab
  /\ ChunkAt(Cur) = ab

\* C9 (as claimed): play(startIndex) in state playing, with or without a start
\* index, changes neither state, index, offset nor retry count and makes no
\* adapter call and no notification.
C9_PlayWhilePlayingNoOp ==
  state = "playing" =>
    \A k \in Indices \cup {Undefined} :
      LET r == play(Cur, k)
      IN SamePosition(Cur, r) /\ r.calls = <<>> /\ r.notes = <<>>

\* C10 (as claimed): play(startIndex) in state paused, with or without a start
\* index, calls the adapter's resume and nothing else, ends in state playing,
\* and leaves index, offset and the utterance in flight as resume() does, that
\* is as they were.
C10_PlayWhilePausedIsResume ==
  state = "paused" =>
    \A k \in Indices \cup {Undefined} :
      LET r == play(Cur, k)
      IN /\ r.calls = <<[op |-> "resume"]>>
         /\ r.state = "playing"
         /\ r.index = index
         /\ r.lastKnownCharOffset = lastKnownCharOffset
         /\ r.engine = engine
         /\ r.utterance = utterance

\* index, intra-chunk offset and retry count are the same in q and r
SamePlace(q, r) ==
  /\ r.index = q.index
  /\ r.lastKnownCharOffset = q.lastKnownCharOffset
  /\ r.resumeFromOffset = q.resumeFromOffset
  /\ r.retries = q.retries

\* C11: pause() in state playing calls the adapter's pause and makes the state
\* paused, resume() in state paused calls the adapter's resume and makes the
\* state playing; in every other state each makes no adapter call, no
\* notification and no change; neither changes index, offset or retry count.
C11_PauseResume ==
  LET p == pause(Cur)
      r == resume(Cur)
  IN /\ SamePlace(Cur, p) /\ SamePlace(Cur, r)
     /\ IF state = "playing"
        THEN /\ p.calls = <<[op |-> "pause"]>>
             /\ p.state = "paused"
             /\ p.notes = <<[n |-> "state", state |-> "paused"]>>
        ELSE p.calls = <<>> /\ p.notes = <<>> /\ p = Cur
     /\ IF state = "paused"
        THEN /\ r.calls = <<[op |-> "resume"]>>
             /\ r.state = "playing"
             /\ r.notes = <<[n |-> "state", state |-> "playing"]>>
        ELSE r.calls = <<>> /\ r.notes = <<>> /\ r = Cur

\* C11 witness: resume() has just taken a paused session back to playing
C11_Witness ==
  /\ op = "resume"
  /\ state = "playing"
  /\ calls = <<[op |-> "resume"]>>
  /\ lastKnownCharOffset > 0

\* C12: stop() in any state calls the adapter's cancel (and nothing else of the
\* adapter) and leaves the state stopped, the retry count 0 and the
\* intra-chunk offset 0, with no utterance left in the engine.
C12_Stop ==
  LET r == stop(Cur)
  IN /\ r.calls = <<[op |-> "cancel"]>>
     /\ r.state = "stopped"
     /\ r.retries = 0
     /\ r.lastKnownCharOffset = 0
     /\ r.resumeFromOffset = 0
     /\ r.engine = <<>>
     /\ r.index = index

\* C12 witness: stop() has just cancelled an utterance that was in flight
C12_Witness ==
  /\ op = "stop"
  /\ state = "stopped"
  /\ calls = <<[op |-> "cancel"]>>
  /\ stale > 0
  /\ retries = 0 /\ lastKnownCharOffset = 0

\* the speak call of the whole text with the settings of q
SpeakCall(q, text) ==
  [op |-> "speak", text |-> text, rate |-> q.settings.rate,
   volume |-> q.settings.volume, voice |-> q.settings.voice]

\* what C13 says of r, the result of next() (d = 1) or prev() (d = -1)
NextPrevAsClaimed(r, d) ==
  LET ni == Max(0, Min(index + d, Len(chunks) - 1))
  IN /\ r.index = ni
     /\ r.lastKnownCharOffset = 0
     /\ r.resumeFromOffset = 0
     /\ IF state = "playing"
        THEN /\ r.calls = <<[op |-> "cancel"], SpeakCall(Cur, chunks[ni + 1])>>
             /\ r.state = "playing"
        ELSE r.calls = <<>> /\ r.state = state

\* C13: with a chunk sequence that is not empty, next() / prev() set the index
\* to the old index plus/minus 1 clamped to [0, chunkCount-1] and the
\* intra-chunk offset to 0; in state playing they cancel and make exactly one
\* speak call with the whole new current chunk (a chunk being a non-empty
\* string), otherwise they make no adapter call and leave the state.
C13_NextPrev ==
  chunks # <<>> =>
    \A d \in {1, 0 - 1} :
      LET ni == Max(0, Min(index + d, Len(chunks) - 1))
      IN (state = "playing" => chunks[ni + 1] # <<>>) =>
           NextPrevAsClaimed(IF d = 1 THEN next(Cur) ELSE prev(Cur), d)

\* C13 witness: next() while playing has just cancelled the utterance of chunk
\* 0 and spoken the whole of chunk 1
C13_Witness ==
  /\ op = "next"
  /\ state = "playing"
  /\ index = 1
  /\ calls = <<[op |-> "cancel"], SpeakCall(Cur, chunks[2])>>
  /\ stale > 0

\* C14: on a chunk sequence that is not empty, seek makes exactly one cancel
\* call, before anything else; with play requested the controller ends in
\* playing with exactly one speak call, the target chunk (a non-empty string)
\* from the resolved offset, which for seek(index) is 0; without play
\* requested it makes no speak call and ends in paused if it was playing, and
\* otherwise in the state it was in.
C14_Seek ==
  chunks # <<>> =>
    \A k \in Indices : \A p \in BOOLEAN :
      LET r == seek(Cur, k, p)
          ni == Max(0, Min(k, Len(chunks) - 1))
      IN /\ Len(CancelCalls(r.calls)) = 1
         /\ r.calls[1] = [op |-> "cancel"]
         /\ r.index = ni \/ (p /\ chunks[ni + 1] = <<>>)
         /\ (p /\ chunks[ni + 1] # <<>>) =>
              /\ r.state = "playing"
              /\ SpeakCalls(r.calls) = <<SpeakCall(Cur, chunks[ni + 1])>>
              /\ r.lastKnownCharOffset = 0
         /\ ~p =>
              /\ SpeakCalls(r.calls) = <<>>
              /\ r.state = IF state = "playing" THEN "paused" ELSE state

\* C14 witness: a seek with play requested has cancelled an utterance in
\* flight and speaks the whole target chunk
C14_Witness ==
  /\ op = "seek" /\ state = "playing" /\ stale > 0
  /\ chunks # <<>>
  /\ calls = <<[op |-> "cancel"], SpeakCall(Cur, ChunkAt(Cur))>>

\* C15: in every reachable state 0 <= currentIndex <= max(0, chunkCount-1),
\* and an index argument outside the range is clamped into it: a seek to k
\* without play on a sequence that is not empty lands on k clamped to
\* [0, chunkCount-1], and setChunks lands on the old index clamped into the
\* new range.
C15_IndexInRange ==
  /\ 0 <= index /\ index <= Max(0, Len(chunks) - 1)
  /\ chunks # <<>> =>
       \A k \in Indices :
         seek(Cur, k, FALSE).index = Max(0, Min(k, Len(chunks) - 1))
  /\ \A c \in ChunkLists :
       setChunks(Cur, c).index = Max(0, Min(index, Len(c) - 1))

\* C15 witness: the sequence has been replaced by a shorter one while the
\* controller stood on the last chunk of the shorter length
C15_Witness ==
  /\ op = "setChunks" /\ chunks = <<ab, cc>> /\ index = 1
  /\ engine # <<>> /\ state = "playing"

\* C16: in every reachable state the retry count is 0, 1 or 2, and whenever a
\* completion or an error makes the controller advance to another chunk, the
\* retry count is 0 when the first synthesis attempt of that chunk begins.
C16_RetriesBounded ==
  /\ retries \in 0 .. 2
  /\ \A r \in {onend(Cur), onerror(Cur)} :
       r.index # index =>
         /\ r.retries = 0
         /\ SpeakCalls(r.calls) # <<>> => r.attempts = 1

\* C16 witness: after two retries a third error has made the controller
\* advance and begin the next chunk with retry count 0
C16_Witness ==
  /\ op = "onerror" /\ ErrorNotes(notes) # <<>>
  /\ index > 0 /\ state = "playing" /\ SpeakCalls(calls) # <<>>
  /\ attempts = 1 /\ retries = 0

\* C17 (as claimed): setChunks in any state sets currentIndex and the
\* intra-chunk offset to 0 and cancels the utterance in flight, if there is
\* one.
C17_SetChunksResets ==
  \A c \in ChunkLists :
    LET r == setChunks(Cur, c)
    IN /\ r.index = 0
       /\ r.lastKnownCharOffset = 0 /\ r.resumeFromOffset = 0
       /\ engine # <<>> => (CancelCalls(r.calls) # <<>> /\ r.engine = <<>>)

\* C18: a completion event that arrives while the state is paused or stopped
\* changes nothing (index, offsets, retry count, state and all the rest of the
\* controller) and makes no adapter call and no notification.
C18_EndWhileNotPlaying ==
  state \in {"paused", "stopped"} =>
    LET r == onend(Cur)
    IN r = Cur /\ r.calls = <<>> /\ r.notes = <<>>

\* C18 witness: a completion event has been delivered to a paused controller
\* that stands inside a chunk after the first
C18_Witness ==
  /\ op = "onend" /\ state = "paused"
  /\ calls = <<>> /\ notes = <<>>
  /\ index > 0 /\ lastKnownCharOffset > 0

\* C19: when the utterance of the current chunk completes while the state is
\* playing, the intra-chunk offset becomes 0 and, if the current chunk is not
\* the last, the index grows by exactly 1 and exactly one speak call is made,
\* with the whole next chunk (a non-empty string); if it is the last, the
\* state becomes stopped and no speak call is made.
C19_EndAdvances ==
  (state = "playing" /\ CurrentInFlight) =>
    LET r == onend([Cur EXCEPT !.engine = Tail1(engine)])
    IN IF index < Len(chunks) - 1
       THEN chunks[index + 2] # <<>> =>
              /\ r.index = index + 1
              /\ r.calls = <<SpeakCall(Cur, chunks[index + 2])>>
              /\ r.lastKnownCharOffset = 0 /\ r.resumeFromOffset = 0
              /\ r.state = "playing"
       ELSE /\ r.state = "stopped" /\ SpeakCalls(r.calls) = <<>>
            /\ r.index = index
            /\ r.lastKnownCharOffset = 0 /\ r.resumeFromOffset = 0

\* C19 witness: the first chunk has completed and the whole second chunk is
\* being spoken, with no cancelled utterance around
C19_Witness ==
  /\ op = "onend" /\ state = "playing" /\ stale = 0
  /\ chunks = <<ab, cc>> /\ index = 1
  /\ calls = <<SpeakCall(Cur, cc)>>
  /\ lastKnownCharOffset = 0

\* C20 (as claimed): at every moment at most one utterance issued by the
\* controller is live in the engine, so every speak call finds the engine
\* without a live utterance, whatever the order of caller commands and engine
\* callbacks.
C20_NoParallelSynthesis ==
  Len(engine) <= 1

\* C21 (as claimed): with no further caller command, and every utterance
\* handed to the engine ending or failing, a session in state playing reaches
\* state stopped. The controller moves only inside caller commands and engine
\* callbacks, so a playing session gets to stopped without a command only if
\* some utterance of its own is left to report: one in the engine's queue, or
\* a cancelled one whose last event is still due.
C21_PlayingReachesStopped ==
  state = "playing" => (engine # <<>> \/ stale > 0)

\* the handler that made the calls cs was left by an exception
Raised(cs) == \E i \in DOMAIN cs : cs[i].op = "throw"

\* C22 (as claimed): where no speech engine is available, play() and every
\* other controller operation return without raising, and none leaves the
\* controller in state playing with nothing being synthesized.
C22_NoEngineNoRaise ==
  ~Raised(calls) /\ ~(state = "playing" /\ engine = <<>>)

\* next, prev and seek on an empty chunk sequence change nothing in the
\* controller and make no adapter call and no notification
EmptyNextPrevSeek ==
  /\ next(Cur) = Cur
  /\ prev(Cur) = Cur
  /\ \A k \in Indices : \A p \in BOOLEAN : seek(Cur, k, p) = Cur

\* no operation on an empty chunk sequence gets to the adapter's speak, the one
\* adapter call that can raise
EmptyNeverSpeaks ==
  \A r \in {pause(Cur), resume(Cur), stop(Cur), onend(Cur), onerror(Cur)}
           \cup {updateSettings(Cur, p) : p \in Patches}
           \cup {play(Cur, k) : k \in Indices \cup {Undefined}} :
    SpeakCalls(r.calls) = <<>>

C24_BoundaryIndex ==
  LET t == toChunkBoundaries(chunks)
      b == t.boundaries
      n == Len(chunks)
  IN /\ Len(b) = n
     /\ n > 0 => b[1].start = 0
     /\ \A i \in 1 .. n : b[i].end = b[i].start + Len(chunks[i])
     /\ \A i \in 1 .. (n - 1) : b[i].end = b[i + 1].start
     /\ t.total = IF n = 0 THEN 0 ELSE b[n].end

\* C24 witness: a position seek on three chunks has used the third boundary,
\* which starts at 3 and ends at the total of 5
C24_Witness ==
  /\ op = "seekCharPosition" /\ chunks = <<ab, cc, ab>>
  /\ toChunkBoundaries(chunks).boundaries[3] = [start |-> 3, end |-> 5]
  /\ toChunkBoundaries(chunks).total = 5
  /\ index = 2 /\ lastKnownCharOffset = 1

\* C25: for every chunk sequence that is not empty and every integer position
\* p, seekCharPosition resolves p to an index i and an offset o with
\* 0 <= o <= length(chunk i) and boundaries[i].start + o = p clamped to
\* [0, totalChars]; a position at the end of chunk i, which is the start of
\* chunk i+1, resolves to chunk i with o = length(chunk i).
C25_LocatePosition ==
  chunks # <<>> =>
    \A p \in Positions :
      LET t == toChunkBoundaries(chunks)
          b == t.boundaries
          clamped == Max(0, Min(p, t.total))
          loc == locate(chunks, p)
          i == loc.targetIndex
          o == loc.offset
      IN /\ 0 <= i /\ i < Len(chunks)
         /\ 0 <= o /\ o <= Len(chunks[i + 1])
         /\ b[i + 1].start + o = clamped
         /\ \A j \in 1 .. (Len(chunks) - 1) :
              clamped = b[j].end => (i = j - 1 /\ o = Len(chunks[j]))

\* C25 witness: position 2 on chunks of lengths 2, 1, 2, the end of the first
\* chunk and the start of the second, has been resolved to the first chunk
\* with offset 2
C25_Witness ==
  /\ op = "seekCharPosition" /\ state = "stopped"
  /\ chunks = <<ab, cc, ab>>
  /\ index = 0 /\ lastKnownCharOffset = 2
  /\ locate(chunks, 2) = [targetIndex |-> 0, offset |-> 2]

\* C26: segment returns the empty sequence for a text that is empty or all
\* whitespace, and for every text every chunk it returns is non-empty after
\* trimming; the controller holds exactly these chunks.
C26_SegmentNonEmpty ==
  LET result == segmentJapanese(rawInput)
  IN /\ chunks = result
     /\ (\A k \in 1 .. Len(rawInput) : rawInput[k] \in Whitespace) => result = <<>>
     /\ \A i \in 1 .. Len(result) :
          PositionsOf(result[i], Whitespace) # 1 .. Len(result[i])

\* C26 witness: a text of a space, a newline and a tab has been segmented into
\* no chunk
C26_Witness ==
  /\ op = "setRawInput" /\ rawInput = <<" ", "\n", "\t">>
  /\ chunks = <<>>

\* C27: every chunk that segment returns is at most MAX_LEN (260) characters
\* long, unless the chunk is exactly one sentence of its block that is itself
\* longer than MAX_LEN; a chunk made of two or more sentences, by accumulation
\* or by the merge pass, is never over-length.
C27_ChunkLength ==
  LET blocks == blocksOf(preprocess(rawInput))
  IN /\ chunks = pushAll([b \in 1 .. Len(blocks) |-> segmentBlock(blocks[b])])
     /\ \A b \in 1 .. Len(blocks) :
          LET sentences == splitSentences(blocks[b])
              produced == segmentBlock(blocks[b])
          IN \A i \in 1 .. Len(produced) :
               \/ Len(produced[i]) <= MAX_LEN
               \/ /\ SentencesIn(produced[i]) <= 1
                  /\ \E s \in 1 .. Len(sentences) : trim(sentences[s]) = produced[i]

\* a text segmented into an over-length chunk of one sentence and a chunk of
\* two sentences within the bound
C27_Witness ==
  /\ op = "setRawInput"
  /\ \E i \in 1 .. Len(chunks) : Len(chunks[i]) > MAX_LEN
  /\ \E j \in 1 .. Len(chunks) : SentencesIn(chunks[j]) = 2 /\ Len(chunks[j]) <= MAX_LEN

\* C28: for every block from which segment produces two or more chunks, the
\* last chunk of that block is not shorter than MIN_LEN (120).
C28_NoTrailingSliver ==
  LET blocks == blocksOf(preprocess(rawInput))
  IN \A b \in 1 .. Len(blocks) :
       LET produced == segmentBlock(blocks[b])
       IN Len(produced) >= 2 => Len(produced[Len(produced)]) >= MIN_LEN

\* C28 as the code has it: for every block from which segment produces two
\* or more chunks, the last chunk of that block is not shorter than MIN_LEN
\* unless joining it to the chunk before it with a single space would exceed
\* MAX_LEN (260).
C28_SliverOnlyWhenNoRoom ==
  LET blocks == blocksOf(preprocess(rawInput))
  IN /\ chunks = pushAll([b \in 1 .. Len(blocks) |-> segmentBlock(blocks[b])])
     /\ \A b \in 1 .. Len(blocks) :
          LET produced == segmentBlock(blocks[b])
              n == Len(produced)
          IN n >= 2 =>
               \/ Len(produced[n]) >= MIN_LEN
               \/ Len(produced[n - 1]) + 1 + Len(produced[n]) > MAX_LEN

\* one block segmented into two chunks, the last of them a few characters long
C28_Witness ==
  /\ op = "setRawInput"
  /\ Len(blocksOf(preprocess(rawInput))) = 1
  /\ Len(chunks) = 2
  /\ Len(chunks[2]) < MIN_LEN

\* the letters of a text: what it holds besides whitespace, terminators,
\* brackets and list markers
LettersOf(text) ==
  {text[k] : k \in 1 .. Len(text)} \cap {SentenceLetters[k] : k \in 1 .. Len(SentenceLetters)}

\* C29: every line of the normalized text that matches the list marker
\* pattern is a block of its own, and no chunk that segment returns holds
\* text of a list item together with text of any other line, be it prose or
\* another list item, whatever the lengths.
C29_ListItemsAtomic ==
  LET normalized == preprocess(rawInput)
      paragraphs == splitParagraphs(normalized)
      lines == pushAll([p \in 1 .. Len(paragraphs) |-> splitLines(paragraphs[p])])
      blocks == blocksOf(normalized)
      inLine == [i \in 1 .. Len(lines) |-> LettersOf(lines[i])]
      inChunk == [c \in 1 .. Len(chunks) |-> LettersOf(chunks[c])]
  IN /\ chunks = segmentJapanese(rawInput)
     /\ \A i \in 1 .. Len(lines) :
          bulletRe(lines[i]) =>
            /\ \E b \in 1 .. Len(blocks) : blocks[b] = trim(lines[i])
            /\ \A j \in 1 .. Len(lines), c \in 1 .. Len(chunks) :
                 \/ inChunk[c] \cap (inLine[i] \ inLine[j]) = {}
                 \/ inChunk[c] \cap (inLine[j] \ inLine[i]) = {}

\* a short list item after a short line of prose, segmented into two chunks
C29_Witness ==
  LET lines == splitLines(preprocess(rawInput))
  IN /\ op = "setRawInput"
     /\ Len(lines) = 2
     /\ ~bulletRe(lines[1]) /\ bulletRe(lines[2])
     /\ LettersOf(lines[1]) # {} /\ LettersOf(lines[2]) \ LettersOf(lines[1]) # {}
     /\ Len(lines[1]) + 1 + Len(lines[2]) < MIN_LEN
     /\ Len(chunks) = 2

\* a text without its whitespace
NonWhitespace(text) == SelectSeq(text, LAMBDA c : c \notin Whitespace)

\* C30: segmentation neither invents, drops nor reorders text: for every
\* block, the chunks produced for it joined with single spaces are the block's
\* trimmed sentences joined in order with single spaces, and the chunks that
\* segment returns hold, whitespace apart, exactly the characters of the
\* normalized text in their order.
C30_TextPreserved ==
  LET normalized == preprocess(rawInput)
      blocks == blocksOf(normalized)
  IN /\ chunks = segmentJapanese(rawInput)
     /\ \A b \in 1 .. Len(blocks) :
          LET sentences == splitSentences(blocks[b])
          IN join(segmentBlock(blocks[b]))
               = join([s \in 1 .. Len(sentences) |-> trim(sentences[s])])
     /\ NonWhitespace(join(chunks)) = NonWhitespace(normalized)

\* C31: whenever the controller is in state playing after an operation or a
\* callback has returned, an utterance issued by the controller is in flight
\* in the engine: the state is never playing with nothing being synthesized.
C31_PlayingIsSynthesizing ==
  state = "playing" => \E i \in DOMAIN engine : engine[i].attached

\* C32: in every reachable state every utterance of the controller that is
\* in flight has as its text the current chunk from the offset at which its
\* synthesis started to the end; no utterance of an old chunk or of an old
\* sequence is left in the engine.
C32_UtteranceIsCurrentChunk ==
  \A i \in DOMAIN engine : engine[i].text = Slice(ChunkAt(Cur), spokenOffsetBase)

\* C33: a boundary event reporting offset d for a synthesis that started at
\* intra-chunk offset b sets boundarySupported, sets the intra-chunk offset
\* to min(b + d, length of the chunk) and emits a progress notification with
\* it; in every reachable state and in every progress notification the
\* offset lies between 0 and the length of the current chunk.
C33_BoundaryOffset ==
  /\ (engine # <<>> /\ engine[1].attached) =>
       \A d \in 0 .. (Len(engine[1].text) - 1) :
         LET r == onboundary(Cur, d)
             expected == Min(engine[1].base + d, Len(ChunkAt(Cur)))
         IN /\ r.boundarySupported
            /\ r.lastKnownCharOffset = expected
            /\ r.notes # <<>>
            /\ r.notes[Len(r.notes)].n = "progress"
            /\ r.notes[Len(r.notes)].charOffset = expected
  /\ 0 <= lastKnownCharOffset /\ lastKnownCharOffset <= Len(ChunkAt(Cur))
  /\ \A k \in DOMAIN notes :
       notes[k].n = "progress" =>
         /\ 0 <= notes[k].charOffset
         /\ notes[k].charOffset <= Len(ChunkAt([chunks |-> chunks, index |-> notes[k].index]))

\* C34: on a synthesis failure with a retry count below 2, for a current
\* chunk that is not the empty string, the index is unchanged, the retry
\* count is one more and the one speak call made has as its text the current
\* chunk from the last known intra-chunk offset on.
C34_RetryFromLastKnown ==
  (engine # <<>> /\ engine[1].attached /\ retries < 2 /\ ChunkAt(Cur) # <<>>) =>
    LET r == onerror([Cur EXCEPT !.engine = Tail1(engine)])
        spoken == SelectSeq(r.calls, LAMBDA c : c.op = "speak")
    IN /\ r.index = index
       /\ r.retries = retries + 1
       /\ Len(spoken) = 1
       /\ spoken[1].text = Slice(ChunkAt(Cur), lastKnownCharOffset)

\* C35: when nothing of the current chunk remains from the remembered offset
\* on, speakCurrent hands no empty text to the engine and leaves the
\* controller exactly as a normal completion of the chunk would: on the next
\* chunk with text, spoken from offset 0 with retry count 0, or stopped when
\* none remains.
C35_EmptyRemainingAdvances ==
  \A o \in Offsets :
    LET q == [Cur EXCEPT !.resumeFromOffset = o]
        remaining == Slice(ChunkAt(q), Min(o, Len(ChunkAt(q))))
    IN (chunks # <<>> /\ remaining = <<>>) =>
         LET r == speakCurrent(q)
             spoken == SpeakCalls(r.calls)
         IN /\ r = autoAdvance(resetOffsets(q))
            /\ \A k \in DOMAIN spoken : spoken[k].text # <<>>
            /\ Len(spoken) <= 1
            /\ r.resumeFromOffset = 0 /\ r.lastKnownCharOffset = 0
            /\ \/ /\ spoken = <<>> /\ r.state = "stopped" /\ r.index = index
                  /\ \A j \in (index + 2) .. Len(chunks) : chunks[j] = <<>>
               \/ /\ Len(spoken) = 1 /\ r.state = state /\ r.index > index
                  /\ r.retries = 0
                  /\ spoken[1].text = chunks[r.index + 1]
                  /\ \A j \in (index + 2) .. r.index : chunks[j] = <<>>

\* an error event with retries left found nothing remaining in the last
\* chunk, and the controller has stopped without notifying an error
C35_Witness ==
  /\ op = "onerror" /\ state = "stopped"
  /\ chunks # <<>> /\ index = Len(chunks) - 1
  /\ ErrorNotes(notes) = <<>>
  /\ SpeakCalls(calls) = <<>>

\* C36: updateSettings called while the state is paused or stopped, whatever
\* the patch, makes no adapter call and no notification and changes nothing
\* but the stored settings, which are the merge of the patch into the old
\* ones; the next speak call is made with them.
C36_SettingsWhileNotPlaying ==
  state # "playing" =>
    \A p \in Patches :
      LET r == updateSettings(Cur, p)
          merged == [rate |-> Coalesce(p.rate, settings.rate),
                     volume |-> Coalesce(p.volume, settings.volume),
                     voice |-> Coalesce(p.voice, settings.voice)]
          later == SpeakCalls(seek(r, index, TRUE).calls)
                     \o SpeakCalls(play(r, Undefined).calls)
      IN /\ r = [Cur EXCEPT !.settings = merged]
         /\ r.calls = <<>> /\ r.notes = <<>>
         /\ r.state = state /\ SamePlace(Cur, r)
         /\ \A k \in DOMAIN later :
              /\ later[k].rate = merged.rate
              /\ later[k].volume = merged.volume
              /\ later[k].voice = merged.voice

\* the voice was set while paused: the paused utterance is still in the
\* engine and no adapter call was made
C36_Witness ==
  /\ op = "updateSettings" /\ state = "paused"
  /\ settings.voice = 1
  /\ calls = <<>> /\ notes = <<>>
  /\ engine # <<>>

\* C37: a patch whose merge into the stored settings leaves rate and voice as
\* they were makes updateSettings call no adapter method: playback is neither
\* cancelled nor restarted.
C37_RestartOnlyOnChange ==
  \A p \in Patches :
    (/\ Coalesce(p.rate, settings.rate) = settings.rate
     /\ Coalesce(p.voice, settings.voice) = settings.voice)
      => updateSettings(Cur, p).calls = <<>>

\* C38: after every operation and every callback has returned, the index of
\* the most recent onIndex notification is the controller's index and the
\* state of the most recent onState notification is its state, once such a
\* notification has been made.
C38_ListenerInSync ==
  /\ onIndex # Undefined => onIndex = index
  /\ onState # "none" => onState = state

\* C39: in the segmenter that cuts over-long sentences every chunk returned
\* is non-empty and at most MAX_LEN (260) characters long; the first chunk
\* of a sentence longer than MAX_LEN ends before the last separator (comma,
\* space or middle dot) among its first MAX_LEN + 1 characters when that
\* separator stands at index MAX_LEN / 2 or later, and holds exactly the
\* first MAX_LEN characters otherwise; the cutting ends for every sentence
\* and loses nothing but whitespace.
C39_ForceSplit ==
  LET result == segmentJapaneseForced(rawInput)
      sentences == sentencesOf(preprocess(rawInput))
  IN /\ chunks = result
     /\ \A i \in 1 .. Len(result) : result[i] # <<>> /\ Len(result[i]) <= MAX_LEN
     /\ \A s \in 1 .. Len(sentences) :
          Len(sentences[s]) > MAX_LEN =>
            LET sentence == sentences[s]
                pieces == whileRemain(sentence, <<>>)
                found == {k \in 0 .. MAX_LEN : sentence[k + 1] \in Separators}
                usable == {k \in found : 2 * k >= MAX_LEN}
                last == IF found = {} THEN 0 - 1 ELSE MaxOf(found)
            IN /\ Len(pieces) >= 2
               /\ pieces[1] = trim(SubSeq(sentence, 1, IF last \in usable THEN last
                                                       ELSE MAX_LEN))
               /\ NonWhitespace(pushAll(pieces)) = NonWhitespace(sentence)

\* a sentence of more than twice MAX_LEN characters was cut once at a
\* separator and once hard
C39_Witness ==
  /\ op = "refreshContent"
  /\ Len(rawInput) > 2 * MAX_LEN
  /\ Len(chunks) = 3
  /\ Len(chunks[1]) < MAX_LEN
  /\ rawInput[Len(chunks[1]) + 1] \in Separators
  /\ Len(chunks[2]) = MAX_LEN

\* C40: for the sentences of every block, the merge pass returns the output
\* of the length-bounded accumulation unchanged, and each chunk after the
\* first begins with a sentence that did not fit into the chunk before it.
C40_MergeIsIdentity ==
  LET blocks == blocksOf(preprocess(rawInput))
  IN \A b \in 1 .. Len(blocks) :
       LET sentences == splitSentences(blocks[b])
           accumulated == chunkByLength(sentences)
       IN /\ mergeShortChunks(accumulated) = accumulated
          /\ \A k \in 2 .. Len(accumulated) :
               \E j \in 1 .. Len(sentences) :
                 LET t == trim(sentences[j])
                 IN /\ Len(t) <= Len(accumulated[k])
                    /\ SubSeq(accumulated[k], 1, Len(t)) = t
                    /\ Len(accumulated[k - 1]) + 1 + Len(t) > MAX_LEN

\* one block whose first chunk is shorter than MIN_LEN and is followed by a
\* chunk that the merge pass left apart
C40_Witness ==
  /\ op = "setRawInput"
  /\ Len(blocksOf(preprocess(rawInput))) = 1
  /\ Len(chunks) >= 2
  /\ Len(chunks[1]) < MIN_LEN
  /\ chunks = chunkByLength(splitSentences(blocksOf(preprocess(rawInput))[1]))

TypeOK ==
  /\ state \in {"stopped", "playing", "paused"}
  /\ retries \in 0 .. 2
  /\ index \in 0 .. 3
  /\ op \in {"new", "setChunks", "refreshChunks", "updateSettings", "play", "pause",
            "resume", "stop", "next", "prev", "seek", "onboundary", "onend",
            "onerror", "discard", "seekCharPosition", "togglePlayPause",
            "setRawInput", "refreshContent"}
====
